---- MODULE Spec2Model ----
(* Model of the LotteryApp component: the pool of players, the winners   *)
(* history, the two localStorage slots, the React effects that load and   *)
(* save them, and the timed draw.  Two variants of the component exist:   *)
(* src/src/component/Dashboard.tsx clears the whole pool when a draw      *)
(* completes, src/unnamed/part_000 removes only the drawn winner.         *)
EXTENDS Integers, Sequences, FiniteSets, TLC

(* ---------------------------------------------------------------- *)
(* Bounds of the model                                                *)
(* ---------------------------------------------------------------- *)
MaxPlayers == 2      \* registrations stop at this pool size
MaxHistory == 2      \* draws stop being requested at this history length
MaxSpins == 3        \* the clock is read at 0, 1, ..., MaxSpins spin periods
RandDenom == 2       \* Math.random() yields k / RandDenom, k in 0..RandDenom-1

(* ---------------------------------------------------------------- *)
(* Program constants                                                  *)
(* ---------------------------------------------------------------- *)
spinDuration == 4000
confettiDuration == 7000

Variants == {"clearAll", "removeWinner"}

(* Strings are sequences of characters; " " is the whitespace character. *)
(* The texts typed into the name field and into the number field.         *)
NameInputs == { <<>>, <<" ">>, <<" ", "a">> }
NumberInputs == { <<>>, <<" ">>, <<"1">> }

RECURSIVE TrimStart(_)
TrimStart(s) ==
    IF s = <<>> THEN <<>>
    ELSE IF Head(s) = " " THEN TrimStart(Tail(s)) ELSE s

RECURSIVE TrimEnd(_)
TrimEnd(s) ==
    IF s = <<>> THEN <<>>
    ELSE IF s[Len(s)] = " " THEN TrimEnd(SubSeq(s, 1, Len(s) - 1)) ELSE s

(* String.prototype.trim *)
Trim(s) == TrimEnd(TrimStart(s))

(* The value an <input> reports to onChange.  type="text" reports the    *)
(* typed text; type="number" (the number field of the clearAll variant)  *)
(* reports "" for anything that is not a number.                          *)
InputValue(type, typed) ==
    IF type = "number"
    THEN IF \A i \in 1..Len(typed) : typed[i] # " " THEN typed ELSE <<>>
    ELSE typed

NumberInputType(v) == IF v = "clearAll" THEN "number" ELSE "text"

(* ---------------------------------------------------------------- *)
(* localStorage: a slot is absent (null) or holds a string.  Strings  *)
(* written by the component are JSON texts of an array of objects; a   *)
(* JSON text of an object is the list of its key/value pairs.  Any     *)
(* other script of the origin can write a slot: Garbage is a string    *)
(* that is no JSON text.                                                *)
(* ---------------------------------------------------------------- *)
Null == [kind |-> "null"]
Garbage == [kind |-> "text"]
SlotKeys == {"lotteryPlayers", "lotteryWinners"}

(* The own properties of a Player or a Winner, in insertion order. *)
Keys(obj) ==
    IF "date" \in DOMAIN obj
    THEN <<"name", "number", "id", "date">>
    ELSE <<"name", "number", "id">>

ObjectToJson(obj) == [i \in 1..Len(Keys(obj)) |-> <<Keys(obj)[i], obj[Keys(obj)[i]]>>]

JsonToObject(pairs) ==
    [key \in {pairs[i][1] : i \in 1..Len(pairs)} |->
        pairs[CHOOSE i \in 1..Len(pairs) : pairs[i][1] = key][2]]

(* A stringify that leaves the last property of every object out. *)
StringifyShort(v) ==
    [kind |-> "json",
     text |-> [i \in 1..Len(v) |->
                 SubSeq(ObjectToJson(v[i]), 1, Len(Keys(v[i])) - 1)]]

(* JSON.stringify(players), JSON.stringify(winnersHistory) *)
Stringify(v) ==
    [kind |-> "json", text |-> [i \in 1..Len(v) |-> ObjectToJson(v[i])]]

(* JSON.parse of the text of a slot *)
JsonParse(text) == [i \in 1..Len(text) |-> JsonToObject(text[i])]

(* JSON.parse throws a SyntaxError on a string that is no JSON text. *)
ParseThrows(slot) == slot.kind = "text"

(* JSON.parse(localStorage.getItem(key) || "[]"), when it does not throw *)
ParseOrEmpty(slot) == IF slot.kind = "json" THEN JsonParse(slot.text) ELSE <<>>

(* The filter with the comparison turned round: player.id === id. *)
RECURSIVE FilterOnlyId(_, _)
FilterOnlyId(s, id) ==
    IF s = <<>> THEN <<>>
    ELSE IF Head(s).id = id THEN <<Head(s)>> \o FilterOnlyId(Tail(s), id)
         ELSE FilterOnlyId(Tail(s), id)

(* players.filter((player) => player.id !== id) *)
RECURSIVE FilterOutId(_, _)
FilterOutId(s, id) ==
    IF s = <<>> THEN <<>>
    ELSE IF Head(s).id # id THEN <<Head(s)>> \o FilterOutId(Tail(s), id)
         ELSE FilterOutId(Tail(s), id)

(* The values Math.random() takes in the model, as numerators over      *)
(* RandDenom: 0 <= k / RandDenom < 1.                                    *)
RandomValues == 0..(RandDenom - 1)

(* Math.ceil in the place of Math.floor. *)
RandomIndexCeil(k, length) == (k * length + RandDenom - 1) \div RandDenom

(* Math.floor(Math.random() * length), with Math.random() = k / RandDenom; *)
(* JavaScript arrays are 0-based, TLA+ sequences 1-based.                  *)
RandomIndex(k, length) == (k * length) \div RandDenom

VARIABLES
    variant,          \* which of the two source files is running
    now,              \* Date.now()
    name, number,     \* the two controlled input fields
    players,          \* useState<Player[]>
    winnersHistory,   \* useState<Winner[]>
    winner,           \* useState<Player | null>
    isDrawing, showConfetti, showWinnerPopup,
    lotteryPlayers,   \* localStorage slot "lotteryPlayers"
    lotteryWinners,   \* localStorage slot "lotteryWinners"
    effects,          \* effects of committed renders that have not run yet
    intervals,        \* live setInterval callbacks with what they closed over
    timeouts          \* due times of live setTimeout callbacks

vars == <<variant, now, name, number, players, winnersHistory, winner,
          isDrawing, showConfetti, showWinnerPopup, lotteryPlayers,
          lotteryWinners, effects, intervals, timeouts>>

inputs == <<name, number>>
ui == <<winner, isDrawing, showConfetti, showWinnerPopup>>
storage == <<lotteryPlayers, lotteryWinners>>
timers == <<intervals, timeouts>>

NoWinner == [kind |-> "null"]

(* The values Date.now() takes in the model. *)
ClockValues == {b * spinDuration : b \in 0..MaxSpins}

(* The effects of the first render, in declaration order; the two save   *)
(* effects close over the players and winnersHistory of that render.      *)
MountEffects ==
    << [kind |-> "load"],
       [kind |-> "savePlayers", val |-> <<>>],
       [kind |-> "saveWinners", val |-> <<>>] >>

(* What is left of the effects when one of them throws: the error is not *)
(* caught, React takes the component off the page and nothing of it runs *)
(* any more.                                                              *)
UncaughtError == [kind |-> "error"]

(* localStorage.setItem("lotteryPlayers", JSON.stringify(players)) *)
SavePlayersEffect(ps) == [kind |-> "savePlayers", val |-> ps]
(* A save of the history under the key of the pool. *)
SaveWinnersAsPlayers(ws) == [kind |-> "savePlayers", val |-> ws]

(* localStorage.setItem("lotteryWinners", JSON.stringify(winnersHistory)) *)
SaveWinnersEffect(ws) == [kind |-> "saveWinners", val |-> ws]

(* The save effects with the history written first. *)
HistorySavedFirst(ps, ws) == << SaveWinnersEffect(ws), SavePlayersEffect(ps) >>

(* The effects of a render in which both collections have changed: the  *)
(* two save effects, in declaration order.                               *)
BothSaveEffects(ps, ws) == << SavePlayersEffect(ps), SaveWinnersEffect(ws) >>

Init ==
    /\ variant \in Variants
    /\ now = 0
    /\ name = <<>>
    /\ number = <<>>
    /\ players = <<>>
    /\ winnersHistory = <<>>
    /\ winner = NoWinner
    /\ isDrawing = FALSE
    /\ showConfetti = FALSE
    /\ showWinnerPopup = FALSE
    /\ lotteryPlayers = Null
    /\ lotteryWinners = Null
    /\ effects = MountEffects
    /\ intervals = <<>>
    /\ timeouts = {}

(* Event handlers and timer callbacks run only once the effects of the   *)
(* last commit have been flushed.                                         *)
Settled == effects = <<>>

(* Time passes: the clock moves on by a spin period.  Handlers that run *)
(* without a ClockTick between them read the same Date.now().            *)
ClockTick ==
    /\ now + spinDuration \in ClockValues
    /\ now' = now + spinDuration
    /\ UNCHANGED <<variant, inputs, players, winnersHistory, ui,
                   storage, effects, timers>>

(* The load effect of the mount: both slots are read and parsed, and the *)
(* re-render it causes schedules the two save effects again.  Both       *)
(* JSON.parse calls come before the two setters, and nothing catches     *)
(* what they throw: the later effects of the component are not run.      *)
LoadEffect ==
    /\ effects # <<>>
    /\ Head(effects).kind = "load"
    /\ IF ParseThrows(lotteryPlayers) \/ ParseThrows(lotteryWinners)
       THEN /\ effects' = <<UncaughtError>>
            /\ UNCHANGED <<players, winnersHistory>>
       ELSE LET savedPlayers == ParseOrEmpty(lotteryPlayers)
                savedWinners == ParseOrEmpty(lotteryWinners)
            IN /\ players' = savedPlayers
               /\ winnersHistory' = savedWinners
               /\ effects' = Tail(effects) \o
                     BothSaveEffects(savedPlayers, savedWinners)
    /\ UNCHANGED <<variant, now, inputs, ui, storage, timers>>

(* useEffect(..., [players]) *)
SavePlayers ==
    /\ effects # <<>>
    /\ Head(effects).kind = "savePlayers"
    /\ lotteryPlayers' = Stringify(Head(effects).val)
    /\ effects' = Tail(effects)
    /\ UNCHANGED <<variant, now, inputs, players, winnersHistory, ui,
                   lotteryWinners, timers>>

(* useEffect(..., [winnersHistory]) *)
SaveWinners ==
    /\ effects # <<>>
    /\ Head(effects).kind = "saveWinners"
    /\ lotteryWinners' = Stringify(Head(effects).val)
    /\ effects' = Tail(effects)
    /\ UNCHANGED <<variant, now, inputs, players, winnersHistory, ui,
                   lotteryPlayers, timers>>

(* onChange of the name field *)
SetName(typed) ==
    /\ Settled
    /\ Len(players) < MaxPlayers
    /\ name' = InputValue("text", typed)
    /\ UNCHANGED <<variant, now, number, players, winnersHistory, ui,
                   storage, effects, timers>>

(* onChange of the number field *)
SetNumber(typed) ==
    /\ Settled
    /\ Len(players) < MaxPlayers
    /\ number' = InputValue(NumberInputType(variant), typed)
    /\ UNCHANGED <<variant, now, name, players, winnersHistory, ui,
                   storage, effects, timers>>

(* The validation without the trimming. *)
RegisterRejectsUntrimmed(n, m) == n = <<>> \/ m = <<>>

(* if (!name.trim() || !number.trim()) return; *)
RegisterRejects(n, m) == Trim(n) = <<>> \/ Trim(m) = <<>>

(* A new player made of the raw field values. *)
NewPlayerUntrimmed(n, m, t) == [name |-> n, number |-> m, id |-> t]

(* { name: name.trim(), number: number.trim(), id: Date.now() } *)
NewPlayer(n, m, t) == [name |-> Trim(n), number |-> Trim(m), id |-> t]

(* handleRegister, from the Register button or the Enter key *)
HandleRegister ==
    /\ Settled
    /\ Len(players) < MaxPlayers
    /\ IF RegisterRejects(name, number)
       THEN UNCHANGED <<inputs, players, effects>>
       ELSE /\ players' = Append(players, NewPlayer(name, number, now))
            /\ name' = <<>>
            /\ number' = <<>>
            /\ effects' = <<SavePlayersEffect(players')>>
    /\ UNCHANGED <<variant, now, winnersHistory, ui, storage, timers>>

(* The disabled attribute with isDrawing left out of it. *)
DrawDisabledWhenEmptyOnly(ps, drawing) == Len(ps) = 0

(* disabled={players.length === 0 || isDrawing} *)
DrawDisabled(ps, drawing) == Len(ps) = 0 \/ drawing

(* if (players.length === 0) return; *)
DrawReturnsEarly(ps) == Len(ps) = 0

(* A click that is turned away only while a draw is running. *)
DrawRejectedWhenDrawingOnly(ps, drawing) == drawing

(* A click on the Draw button does nothing when the button is disabled  *)
(* or handleDraw returns early.                                          *)
DrawRejected(ps, drawing) == DrawDisabled(ps, drawing) \/ DrawReturnsEarly(ps)

(* A handleDraw that starts the draw and leaves the winner, the popup   *)
(* and the confetti of the draw before as they are.                      *)
HandleDrawKeepsResult ==
    /\ Settled
    /\ Len(winnersHistory) < MaxHistory
    /\ now + spinDuration \in ClockValues
    /\ IF DrawRejected(players, isDrawing)
       THEN UNCHANGED <<ui, intervals>>
       ELSE /\ isDrawing' = TRUE
            /\ UNCHANGED <<winner, showConfetti, showWinnerPopup>>
            /\ intervals' = Append(intervals,
                                   [startTime |-> now, players |-> players])
    /\ UNCHANGED <<variant, now, inputs, players, winnersHistory, storage,
                   effects, timeouts>>

(* A click on the Draw button: nothing when the button is disabled,      *)
(* handleDraw otherwise.                                                  *)
HandleDraw ==
    /\ Settled
    /\ Len(winnersHistory) < MaxHistory
    /\ now + spinDuration \in ClockValues
    /\ IF DrawRejected(players, isDrawing)
       THEN UNCHANGED <<ui, intervals>>
       ELSE /\ isDrawing' = TRUE
            /\ winner' = NoWinner
            /\ showConfetti' = FALSE
            /\ showWinnerPopup' = FALSE
            /\ intervals' = Append(intervals,
                                   [startTime |-> now, players |-> players])
    /\ UNCHANGED <<variant, now, inputs, players, winnersHistory, storage,
                   effects, timeouts>>

RemoveAt(s, i) == SubSeq(s, 1, i - 1) \o SubSeq(s, i + 1, Len(s))

(* { ...newWinner, date: new Date().toLocaleString() } *)
WinnerRecord(p, t) ==
    [name |-> p.name, number |-> p.number, id |-> p.id, date |-> t]

(* The new record put behind the earlier ones. *)
AppendWinner(rec, prev) == prev \o <<rec>>

(* The new record put in place of the earlier ones. *)
ReplaceWinners(rec, prev) == <<rec>>

(* setWinnersHistory((prev) => [{ ...newWinner, date }, ...prev]) *)
PrependWinner(rec, prev) == <<rec>> \o prev

(* An elapsed time measured from the callback's own clock reading. *)
DelayNeverElapsed(startTime, t) == t - t >= spinDuration

(* elapsed = Date.now() - startTime; if (elapsed >= spinDuration) *)
DelayElapsed(startTime, t) == t - startTime >= spinDuration

(* A completion that leaves the pool as it is. *)
PoolKept(v, prev, newWinner) == prev

(* The pool after a draw: setPlayers([]) in Dashboard.tsx,               *)
(* setPlayers((prev) => prev.filter((p) => p.id !== newWinner.id)) in    *)
(* part_000.                                                              *)
PoolAfterDraw(v, prev, newWinner) ==
    IF v = "clearAll" THEN <<>> ELSE FilterOutId(prev, newWinner.id)

(* One firing of the setInterval callback i, with Math.random() = k /    *)
(* RandDenom.  The callback reads the players of the render in which     *)
(* handleDraw ran.                                                        *)
SpinInterval(i, k) ==
    /\ Settled
    /\ i \in 1..Len(intervals)
    /\ LET closure == intervals[i]
       IN IF DelayElapsed(closure.startTime, now)
          THEN LET randomIndex == RandomIndex(k, Len(closure.players))
                   newWinner == closure.players[randomIndex + 1]
               IN /\ intervals' = RemoveAt(intervals, i)
                  /\ winner' = newWinner
                  /\ isDrawing' = FALSE
                  /\ showConfetti' = TRUE
                  /\ showWinnerPopup' = TRUE
                  /\ winnersHistory' =
                        PrependWinner(WinnerRecord(newWinner, now),
                                      winnersHistory)
                  /\ players' = PoolAfterDraw(variant, players, newWinner)
                  /\ timeouts' = timeouts \cup {now + confettiDuration}
                  /\ effects' = BothSaveEffects(players', winnersHistory')
          ELSE UNCHANGED <<players, winnersHistory, ui, effects, timers>>
    /\ UNCHANGED <<variant, now, inputs, storage>>

(* setTimeout(() => setShowConfetti(false), 7000) *)
ConfettiTimeout(due) ==
    /\ Settled
    /\ due \in timeouts
    /\ now >= due
    /\ showConfetti' = FALSE
    /\ timeouts' = timeouts \ {due}
    /\ UNCHANGED <<variant, now, inputs, players, winnersHistory, winner,
                   isDrawing, showWinnerPopup, storage, effects, intervals>>

(* The popup is rendered when showWinnerPopup && winner. *)
PopupShown == showWinnerPopup /\ winner # NoWinner

CloseWinnerPopup ==
    /\ Settled
    /\ PopupShown
    /\ showWinnerPopup' = FALSE
    /\ UNCHANGED <<variant, now, inputs, players, winnersHistory, winner,
                   isDrawing, showConfetti, storage, effects, timers>>

(* The Celebrate button of the popup: onClick={() => setShowConfetti(true)} *)
Celebrate ==
    /\ Settled
    /\ PopupShown
    /\ showConfetti' = TRUE
    /\ UNCHANGED <<variant, now, inputs, players, winnersHistory, winner,
                   isDrawing, showWinnerPopup, storage, effects, timers>>

(* The Clear History button is rendered when winnersHistory.length > 0. *)
ClearHistory ==
    /\ Settled
    /\ Len(winnersHistory) > 0
    /\ winnersHistory' = <<>>
    /\ effects' = <<SaveWinnersEffect(winnersHistory')>>
    /\ UNCHANGED <<variant, now, inputs, players, ui, storage, timers>>

(* removePlayer(id) *)
RemovePlayer(id) ==
    /\ Settled
    /\ players' = FilterOutId(players, id)
    /\ effects' = <<SavePlayersEffect(players')>>
    /\ UNCHANGED <<variant, now, inputs, winnersHistory, ui, storage, timers>>

(* A Clear All that empties the history along with the pool. *)
ClearPlayersAndHistory ==
    /\ Settled
    /\ Len(players) > 0
    /\ players' = <<>>
    /\ winnersHistory' = <<>>
    /\ effects' = << SavePlayersEffect(players'),
                     SaveWinnersEffect(winnersHistory') >>
    /\ UNCHANGED <<variant, now, inputs, ui, storage, timers>>

(* The Clear All button is rendered when players.length > 0. *)
ClearAllPlayers ==
    /\ Settled
    /\ Len(players) > 0
    /\ players' = <<>>
    /\ effects' = <<SavePlayersEffect(players')>>
    /\ UNCHANGED <<variant, now, inputs, winnersHistory, ui, storage, timers>>

(* The page is reloaded: the component is constructed again, timers die, *)
(* localStorage stays.                                                    *)
Reload ==
    /\ name' = <<>>
    /\ number' = <<>>
    /\ players' = <<>>
    /\ winnersHistory' = <<>>
    /\ winner' = NoWinner
    /\ isDrawing' = FALSE
    /\ showConfetti' = FALSE
    /\ showWinnerPopup' = FALSE
    /\ effects' = MountEffects
    /\ intervals' = <<>>
    /\ timeouts' = {}
    /\ UNCHANGED <<variant, now, storage>>

(* The page is loaded again after another script of the origin, or the   *)
(* user, has written something that is no JSON text into the slot key.   *)
CorruptedReload(key) ==
    /\ name' = <<>>
    /\ number' = <<>>
    /\ players' = <<>>
    /\ winnersHistory' = <<>>
    /\ winner' = NoWinner
    /\ isDrawing' = FALSE
    /\ showConfetti' = FALSE
    /\ showWinnerPopup' = FALSE
    /\ effects' = MountEffects
    /\ intervals' = <<>>
    /\ timeouts' = {}
    /\ IF key = "lotteryPlayers"
       THEN lotteryPlayers' = Garbage /\ UNCHANGED lotteryWinners
       ELSE lotteryWinners' = Garbage /\ UNCHANGED lotteryPlayers
    /\ UNCHANGED <<variant, now>>

(* Some slot is found corrupted at a page load. *)
CorruptedReloads == \E key \in SlotKeys : CorruptedReload(key)

(* Some live interval fires. *)
SpinIntervalFires ==
    \E i \in 1..Len(intervals), k \in RandomValues : SpinInterval(i, k)

(* Some live timeout fires. *)
ConfettiTimeoutFires == \E due \in timeouts : ConfettiTimeout(due)

(* Everything the running component does. *)
Run ==
    \/ ClockTick
    \/ LoadEffect
    \/ SavePlayers
    \/ SaveWinners
    \/ \E typed \in NameInputs : SetName(typed)
    \/ \E typed \in NumberInputs : SetNumber(typed)
    \/ HandleRegister
    \/ HandleDraw
    \/ SpinIntervalFires
    \/ ConfettiTimeoutFires
    \/ CloseWinnerPopup
    \/ Celebrate
    \/ ClearHistory
    \/ \E id \in ClockValues : RemovePlayer(id)
    \/ ClearAllPlayers

Next == Run \/ Reload \/ CorruptedReloads

Spec == Init /\ [][Next]_vars

(* One life of the component, from its construction on, with no reload. *)
(* Time passes, pending effects run, and a timer callback that is due   *)
(* again and again is run in the end.                                    *)
LiveSpec ==
    /\ Init
    /\ [][Run]_vars
    /\ WF_vars(ClockTick)
    /\ WF_vars(LoadEffect)
    /\ WF_vars(SavePlayers)
    /\ WF_vars(SaveWinners)
    /\ SF_vars(SpinIntervalFires)

(* ---------------------------------------------------------------- *)
(* Properties                                                         *)
(* ---------------------------------------------------------------- *)

(* A step in which a draw request is accepted: an interval is started. *)
DrawAccepted == HandleDraw /\ Len(intervals') > Len(intervals)

(* A step in which a draw delay completes: the interval is cleared. *)
DrawCompletion == SpinIntervalFires /\ Len(intervals') < Len(intervals)

HasId(ps, id) == \E j \in 1..Len(ps) : ps[j].id = id

AsPlayer(w) == [name |-> w.name, number |-> w.number, id |-> w.id]

(* C1: the name and number of the record a completing draw adds belong  *)
(* to an entrant that is in the pool at the instant the delay completes. *)
C1_WinnerFromPoolAtCompletion ==
    [][DrawCompletion =>
         \E j \in 1..Len(players) :
            /\ players[j].name = winnersHistory'[1].name
            /\ players[j].number = winnersHistory'[1].number]_vars

(* C2: an accepted draw request starts exactly one interval, and the    *)
(* completion of the delay clears it and puts exactly one record in     *)
(* front of the history as it was, which follows unchanged.              *)
C2_OneRecordAtFront ==
    [][/\ DrawAccepted =>
             /\ Len(intervals') = 1
             /\ winnersHistory' = winnersHistory
       /\ DrawCompletion =>
             /\ intervals' = <<>>
             /\ Len(winnersHistory') = Len(winnersHistory) + 1
             /\ Tail(winnersHistory') = winnersHistory
             /\ Head(winnersHistory').date = now
             /\ winner' = AsPlayer(Head(winnersHistory'))]_vars

C2_Witness ==
    /\ Len(effects) = 2
    /\ winner # NoWinner
    /\ Len(winnersHistory) = 2
    /\ winner = AsPlayer(winnersHistory[1])
    /\ winnersHistory[1].date = now
    /\ winnersHistory[1].date > winnersHistory[2].date

IsSuffix(a, b) ==
    /\ Len(a) <= Len(b)
    /\ SubSeq(b, Len(b) - Len(a) + 1, Len(b)) = a

(* C3: in every step but clearHistory (and the construction of the      *)
(* component at a reload) the history before the step is a suffix of    *)
(* the history after it.                                                 *)
C3_HistoryAppendOnly ==
    [][\/ IsSuffix(winnersHistory, winnersHistory')
       \/ ClearHistory
       \/ Reload
       \/ CorruptedReloads]_vars

(* A second draw has completed while an entrant registered during its   *)
(* delay is in the pool, and both records are in the history.            *)
C3_Witness ==
    /\ variant = "removeWinner"
    /\ Len(effects) = 2
    /\ winner # NoWinner
    /\ Len(winnersHistory) = 2
    /\ winnersHistory[2].date < now
    /\ Len(players) > 0

(* C4: no two entrants in the pool have the same id. *)
C4_UniqueIds ==
    \A i, j \in 1..Len(players) : i # j => players[i].id # players[j].id

(* C5: at most one draw delay is in flight, and a click on Draw while   *)
(* the engine is Drawing changes nothing: no timer, no record.           *)
C5_NoSecondDraw ==
    /\ [](Len(intervals) <= 1)
    /\ [](isDrawing <=> Len(intervals) = 1)
    /\ [][(HandleDraw /\ isDrawing) => UNCHANGED vars]_vars

(* The engine is Drawing, the pool is not empty and a click on Draw is  *)
(* possible.                                                             *)
C5_Witness ==
    /\ isDrawing
    /\ Len(intervals) = 1
    /\ Len(players) > 0
    /\ ENABLED HandleDraw

(* C6: a draw delay that has started completes: the engine leaves       *)
(* Drawing with a winner selected and at the front of the history.       *)
C6_DrawCompletes ==
    isDrawing ~>
       (/\ ~isDrawing
        /\ winner # NoWinner
        /\ winnersHistory # <<>>
        /\ winner = AsPlayer(Head(winnersHistory)))

(* A draw is running that was requested a spin period ago or longer. *)
C6_Witness ==
    /\ isDrawing
    /\ Len(intervals) = 1
    /\ DelayElapsed(intervals[1].startTime, now)
    /\ winnersHistory # <<>>

(* C7: a click on Draw with an empty pool changes nothing: no timer, no *)
(* record, and the engine state, the displayed winner, the pool, the    *)
(* history and both slots stay as they are.                              *)
C7_DrawOnEmptyPool ==
    [][(HandleDraw /\ Len(players) = 0) => UNCHANGED vars]_vars

(* The pool is empty, the engine idle with a winner on display, and a   *)
(* click on Draw is possible.                                            *)
C7_Witness ==
    /\ Len(players) = 0
    /\ ~isDrawing
    /\ intervals = <<>>
    /\ winner # NoWinner
    /\ lotteryPlayers = Stringify(<<>>)
    /\ ENABLED HandleDraw

Blank(str) == \A i \in 1..Len(str) : str[i] = " "

(* C8: handleRegister with a name or a number that is empty after       *)
(* trimming changes neither the pool, nor the history, nor a slot, nor  *)
(* the pending saves.                                                    *)
C8_RegisterRejected ==
    [][(HandleRegister /\ (Blank(name) \/ Blank(number))) =>
          UNCHANGED <<players, winnersHistory, storage, effects>>]_vars

(* A name of whitespace only next to a good number, with a draw running *)
(* and an entrant in the pool.                                           *)
C8_Witness ==
    /\ name = <<" ">>
    /\ number = <<"1">>
    /\ isDrawing
    /\ Len(players) = 1
    /\ ENABLED HandleRegister

(* C9: an accepted handleRegister appends exactly one entrant at the    *)
(* end of the pool, with the trimmed name and number, which are not     *)
(* empty; the entrants before it are as they were.                       *)
C9_RegisterAppends ==
    [][(HandleRegister /\ ~(Blank(name) \/ Blank(number))) =>
          /\ Len(players') = Len(players) + 1
          /\ SubSeq(players', 1, Len(players)) = players
          /\ LET new == players'[Len(players')]
             IN /\ new.name # <<>> /\ new.number # <<>>
                /\ Head(new.name) # " " /\ new.name[Len(new.name)] # " "
                /\ Head(new.number) # " " /\ new.number[Len(new.number)] # " "
                /\ name = <<" ", "a">> => new.name = <<"a">>
                /\ number = <<"1">> => new.number = <<"1">>
                /\ new.id = now]_vars

(* A second entrant has just been registered behind an earlier one: the *)
(* slot still holds the pool of one.                                     *)
C9_Witness ==
    /\ Len(players) = 2
    /\ effects = <<SavePlayersEffect(players)>>
    /\ lotteryPlayers = Stringify(<<players[1]>>)
    /\ players[1].id < players[2].id
    /\ players[2].id = now
    /\ players[2].name = <<"a">>

(* C10: removePlayer with an id that no entrant of the pool carries     *)
(* leaves the pool, the history, the engine and the slots as they are.  *)
C10_RemoveAbsent ==
    [][\A id \in ClockValues :
          (RemovePlayer(id) /\ ~HasId(players, id)) =>
              /\ players' = players
              /\ UNCHANGED <<winnersHistory, ui, storage, timers>>]_vars

(* A save of a pool of two is pending that writes what the slot holds:  *)
(* the pool has been filtered and nothing was removed.                   *)
C10_Witness ==
    /\ Len(players) = 2
    /\ effects = <<SavePlayersEffect(players)>>
    /\ lotteryPlayers = Stringify(players)

(* ---------------------------------------------------------------- *)
(* Removal, clearing                                                  *)
(* ---------------------------------------------------------------- *)

(* ps without the entrant at one position where id is found. *)
IsOneRemoved(ps, qs, id) ==
    \E j \in 1..Len(ps) : ps[j].id = id /\ qs = RemoveAt(ps, j)

(* C11: removePlayer(id) with an id some entrant of the pool has takes  *)
(* exactly one entrant out of the pool, whatever the pool is: the size  *)
(* goes down by one and the other entrants stay, in their order.         *)
C11_RemoveTakesOne ==
    [][\A id \in ClockValues :
          (RemovePlayer(id) /\ HasId(players, id)) =>
              /\ Len(players') = Len(players) - 1
              /\ IsOneRemoved(players, players', id)]_vars

(* C12: clearAllPlayers empties the pool whatever its size was and      *)
(* leaves the history alone, in memory and in its slot: the only write  *)
(* it causes is the save of the pool.  clearHistory empties the history *)
(* and leaves the pool alone, in memory and in its slot: the only write *)
(* it causes is the save of the history.                                 *)
C12_ClearFrames ==
    [][/\ ClearAllPlayers =>
             /\ players' = <<>>
             /\ UNCHANGED <<winnersHistory, lotteryWinners>>
             /\ effects' = <<SavePlayersEffect(<<>>)>>
       /\ ClearHistory =>
             /\ winnersHistory' = <<>>
             /\ UNCHANGED <<players, lotteryPlayers>>
             /\ effects' = <<SaveWinnersEffect(<<>>)>>
       /\ SavePlayers => UNCHANGED <<players, winnersHistory, lotteryWinners>>
       /\ SaveWinners => UNCHANGED <<players, winnersHistory, lotteryPlayers>>
      ]_vars

(* The history was cleared after a draw and its slot written; then a    *)
(* pool of two different entrants was cleared, and its save is pending. *)
C12_Witness ==
    /\ players = <<>>
    /\ effects = <<SavePlayersEffect(<<>>)>>
    /\ Len(ParseOrEmpty(lotteryPlayers)) = 2
    /\ ParseOrEmpty(lotteryPlayers)[1].id # ParseOrEmpty(lotteryPlayers)[2].id
    /\ winner # NoWinner
    /\ winnersHistory = <<>>
    /\ lotteryWinners = Stringify(<<>>)

(* ---------------------------------------------------------------- *)
(* Storage                                                            *)
(* ---------------------------------------------------------------- *)

(* A step that runs the last pending effect. *)
EffectsSettle == effects # <<>> /\ effects' = <<>>

(* A step of the component that is no construction of it. *)
SameMount == ~Reload /\ ~CorruptedReloads

(* C13: a pool P and a history H found in the slots at startup come     *)
(* back: the load effect sets the pool and the history in memory to     *)
(* what the two slots hold, record by record and in order; nothing      *)
(* changes them while effects are still pending; and when the last      *)
(* effect has run both slots hold what is in memory.                     *)
C13_RoundTrip ==
    /\ [][(LoadEffect /\ effects' # <<UncaughtError>>) =>
             /\ players' = ParseOrEmpty(lotteryPlayers)
             /\ winnersHistory' = ParseOrEmpty(lotteryWinners)]_vars
    /\ [][(effects # <<>> /\ ~LoadEffect /\ SameMount) =>
             UNCHANGED <<players, winnersHistory>>]_vars
    /\ [][(EffectsSettle /\ SameMount) =>
             /\ lotteryPlayers'.kind = "json"
             /\ lotteryWinners'.kind = "json"
             /\ ParseOrEmpty(lotteryPlayers') = players'
             /\ ParseOrEmpty(lotteryWinners') = winnersHistory']_vars

(* The end of a startup that found a pool and a history: both are in    *)
(* memory, the pool slot holds the pool again and the save of the       *)
(* history is the one effect left.                                       *)
C13_Witness ==
    /\ winner = NoWinner
    /\ ~isDrawing
    /\ players # <<>>
    /\ winnersHistory # <<>>
    /\ effects = <<SaveWinnersEffect(winnersHistory)>>
    /\ lotteryPlayers = Stringify(players)
    /\ lotteryWinners = Stringify(<<>>)

(* What the load is to make of a slot: the array it holds, and the      *)
(* empty array when it is absent or holds no JSON text.                  *)
Loaded(slot) == IF slot.kind = "json" THEN JsonParse(slot.text) ELSE <<>>

(* C14: the load effect never fails: whatever the two slots hold, it    *)
(* raises no error, and it sets each collection to what its own slot    *)
(* holds, or to the empty array when that slot is absent or unparsable. *)
C14_LoadNeverFails ==
    [][LoadEffect =>
          /\ effects' # <<UncaughtError>>
          /\ players' = Loaded(lotteryPlayers)
          /\ winnersHistory' = Loaded(lotteryWinners)]_vars

(* The kinds of the effects in a queue. *)
EffectKinds(q) == {q[i].kind : i \in 1..Len(q)}

(* A step of one of the operations that change the pool only. *)
PoolMutation ==
    \/ HandleRegister
    \/ \E id \in ClockValues : RemovePlayer(id)
    \/ ClearAllPlayers

(* C15: once the effects of a mutation have run, the pool slot holds    *)
(* the JSON text of the pool in memory and the history slot that of the *)
(* history in memory.  register, removePlayer and clearAllPlayers queue *)
(* no write of the history slot, clearHistory queues no write of the    *)
(* pool slot, and a queued write touches its own slot only.              *)
C15_SlotsFollowMemory ==
    /\ [](Settled => /\ lotteryPlayers = Stringify(players)
                     /\ lotteryWinners = Stringify(winnersHistory))
    /\ [][/\ PoolMutation =>
                /\ "saveWinners" \notin EffectKinds(effects')
                /\ UNCHANGED lotteryWinners
          /\ ClearHistory =>
                /\ "savePlayers" \notin EffectKinds(effects')
                /\ UNCHANGED lotteryPlayers
          /\ SavePlayers => UNCHANGED lotteryWinners
          /\ SaveWinners => UNCHANGED lotteryPlayers]_vars

(* A draw of the removeWinner variant has completed and both writes     *)
(* have been made: the entrant left in the pool is in the pool slot,    *)
(* the two records of the history are in the history slot.               *)
C15_Witness ==
    /\ Settled
    /\ variant = "removeWinner"
    /\ winner # NoWinner
    /\ Len(players) = 1
    /\ Len(winnersHistory) = 2
    /\ winnersHistory[1].date = now
    /\ lotteryPlayers = Stringify(players)
    /\ lotteryWinners = Stringify(winnersHistory)

(* ---------------------------------------------------------------- *)
(* The pool after a draw                                              *)
(* ---------------------------------------------------------------- *)

(* C16: in the removeWinner variant a draw completion takes exactly the *)
(* drawn winner out of the pool: when the pool has an entrant with the  *)
(* winner's id its size goes down by one, and every other entrant,      *)
(* those registered during the delay included, stays, in its order.     *)
C16_OnlyWinnerRemoved ==
    [][(DrawCompletion /\ variant = "removeWinner") =>
          IF HasId(players, winner'.id)
          THEN /\ Len(players') = Len(players) - 1
               /\ IsOneRemoved(players, players', winner'.id)
          ELSE players' = players]_vars

(* p is no entrant of the pool the draw was requested on: it came into  *)
(* the pool while the draw was in flight.                                *)
CameInFlight(p, requested) == \A i \in 1..Len(requested) : requested[i] # p

(* C17: in the clearAll variant the pool is empty right after every     *)
(* draw completion, whatever was registered or removed during the       *)
(* delay; an entrant that came into the pool during the delay is then   *)
(* not in the pool and no record of the history is a record of it.      *)
C17_PoolEmptyAfterDraw ==
    [][(DrawCompletion /\ variant = "clearAll" /\ Len(intervals) = 1) =>
          /\ players' = <<>>
          /\ \A j \in 1..Len(players) :
                CameInFlight(players[j], intervals[1].players) =>
                    \A h \in 1..Len(winnersHistory') :
                        AsPlayer(winnersHistory'[h]) # players[j]]_vars

(* A draw of the clearAll variant has just completed: the pool slot     *)
(* still holds the two entrants of before, the second registered at the *)
(* time of the completion and so during the delay; the first has won,   *)
(* the pool is empty and the history has one record.                     *)
C17_Witness ==
    /\ variant = "clearAll"
    /\ players = <<>>
    /\ winner # NoWinner
    /\ effects = <<SavePlayersEffect(<<>>), SaveWinnersEffect(winnersHistory)>>
    /\ Len(winnersHistory) = 1
    /\ winnersHistory[1].date = now
    /\ Len(ParseOrEmpty(lotteryPlayers)) = 2
    /\ ParseOrEmpty(lotteryPlayers)[1] = winner
    /\ ParseOrEmpty(lotteryPlayers)[2].id = now
    /\ winner.id < now

(* ---------------------------------------------------------------- *)
(* The two writes of a draw completion                                *)
(* ---------------------------------------------------------------- *)

(* Between the two writes of a draw completion: the save of the pool    *)
(* has run, the save of the history with the new record is pending.     *)
BetweenDrawWrites ==
    /\ winner # NoWinner
    /\ winnersHistory # <<>>
    /\ effects = <<SaveWinnersEffect(winnersHistory)>>

HasRecord(ws, rec) == \E h \in 1..Len(ws) : ws[h] = rec

(* C18: the two writes of a draw completion are two steps, the pool     *)
(* slot first.  Between them the pool slot holds the pool of after the  *)
(* draw, with no entrant of the winner's id, and the history slot holds *)
(* the history of before it, without the winner's record.  A reload in  *)
(* that state leaves the slots so, and they are what the load of the    *)
(* new startup reads.                                                    *)
C18_DrawWritesNotAtomic ==
    /\ [][DrawCompletion =>
             /\ UNCHANGED storage
             /\ effects' = << SavePlayersEffect(players'),
                              SaveWinnersEffect(winnersHistory') >>]_vars
    /\ [](BetweenDrawWrites =>
             /\ AsPlayer(Head(winnersHistory)) = winner
             /\ lotteryPlayers = Stringify(players)
             /\ ~HasId(ParseOrEmpty(lotteryPlayers), winner.id)
             /\ lotteryWinners = Stringify(Tail(winnersHistory))
             /\ ~HasRecord(ParseOrEmpty(lotteryWinners), Head(winnersHistory)))
    /\ [][(BetweenDrawWrites /\ Reload) =>
             /\ effects' = MountEffects
             /\ ~HasId(ParseOrEmpty(lotteryPlayers'), winner.id)
             /\ ~HasRecord(ParseOrEmpty(lotteryWinners'), Head(winnersHistory))]_vars

(* The removeWinner variant between the two writes of its first draw:   *)
(* the pool slot holds the one entrant that is left, the history slot   *)
(* holds no record.                                                      *)
C18_Witness ==
    /\ variant = "removeWinner"
    /\ BetweenDrawWrites
    /\ Len(players) = 1
    /\ lotteryPlayers = Stringify(players)
    /\ Len(winnersHistory) = 1
    /\ lotteryWinners = Stringify(<<>>)
    /\ ENABLED Reload

(* ---------------------------------------------------------------- *)
(* The index of the winner                                            *)
(* ---------------------------------------------------------------- *)

(* C19: for the pool of every draw in flight, of size N >= 1, and every *)
(* value of Math.random(), Math.floor(Math.random() * N) lies in        *)
(* 0..N-1, and every index of 0..N-1 is the result for some value; the  *)
(* winner a completion sets is an entrant of that pool.                  *)
C19_IndexInRange ==
    /\ [](\A i \in 1..Len(intervals) :
             LET N == Len(intervals[i].players)
             IN /\ N >= 1
                /\ \A k \in RandomValues : RandomIndex(k, N) \in 0..(N - 1)
                /\ \A j \in 0..(N - 1) :
                      \E k \in RandomValues : RandomIndex(k, N) = j)
    /\ [][(DrawCompletion /\ Len(intervals) = 1) =>
             \E j \in 1..Len(intervals[1].players) :
                 winner' = intervals[1].players[j]]_vars

(* A draw on a pool of two has just completed and the second of the two *)
(* has won: the pool slot still holds the two, registered at different  *)
(* times, and the winner is the later one.                               *)
C19_Witness ==
    /\ winner # NoWinner
    /\ Len(effects) = 2
    /\ winnersHistory # <<>>
    /\ Head(winnersHistory).date = now
    /\ Len(ParseOrEmpty(lotteryPlayers)) = 2
    /\ ParseOrEmpty(lotteryPlayers)[1].id < ParseOrEmpty(lotteryPlayers)[2].id
    /\ winner = ParseOrEmpty(lotteryPlayers)[2]
    /\ winner.id < now

(* ---------------------------------------------------------------- *)
(* Startup                                                            *)
(* ---------------------------------------------------------------- *)

(* The load effect or a save effect of the first render has still to    *)
(* run: no other render leaves more than two effects.                    *)
FirstRenderEffectsPending == Len(effects) >= 3

(* C20: startup destroys nothing that is stored: while the load effect  *)
(* and the two save effects of the first render run, each slot keeps    *)
(* the collection it held when the component was constructed; no slot   *)
(* is overwritten with the empty collection of the first render.         *)
C20_StartupKeepsSlots ==
    [][(FirstRenderEffectsPending /\ SameMount) =>
          /\ ParseOrEmpty(lotteryPlayers') = ParseOrEmpty(lotteryPlayers)
          /\ ParseOrEmpty(lotteryWinners') = ParseOrEmpty(lotteryWinners)]_vars

(* ---------------------------------------------------------------- *)
(* The states of the draw                                             *)
(* ---------------------------------------------------------------- *)

====
